---- MODULE Spec2Model ----
(***************************************************************************)
(* The FAISS + SQLite vector store of backend/core/vector_store.py         *)
(* (FAISSSQLiteVectorStore, index_type = "flat").                          *)
(*                                                                         *)
(* The store keeps three copies of "which vectors exist":                  *)
(*   db     the committed rows of the SQLite table `vectors`               *)
(*   index  the in-memory faiss.IndexIDMap(IndexFlatL2): an ordered list   *)
(*          of (external id, vector) pairs; ids are not deduplicated       *)
(*   file   the serialized index next to the database (<stem>.faiss)       *)
(* Every public method is one action; a method that can raise takes the    *)
(* step at which the underlying library call fails as an input.            *)
(*                                                                         *)
(* The other parts of the retrieval pipeline each have a specification of  *)
(* their own, which leaves the store's variables alone:                    *)
(*   SpecSemanticSearch  backend/core/semantic_search.py (orc)             *)
(*   SpecEmbeddings      backend/core/embeddings.py (emb)                  *)
(*   SpecChunking        backend/core/chunking.py (chk)                    *)
(*   SpecIngestion       backend/core/ingestion.py (ing)                   *)
(*   SpecGeneration      backend/routers/generation.py (gen), and          *)
(*                       SpecGenerationFair, in which scheduled tasks run  *)
(*   SpecConcurrentAdd   two interleaved add_documents calls (cadd)        *)
(*   SpecConcurrentIngestion  two interleaved ingestion runs (lock)        *)
(*   SpecScopedSearch    search on a store filled by successful adds       *)
(* The first three are functions of their arguments: the initial states    *)
(* are the calls about to be made, the one step of a run makes the call.   *)
(***************************************************************************)
EXTENDS Integers, Sequences, FiniteSets, TLC

\* ---------------------------------------------------------------- bounds
MaxBatch == 2       \* longest list passed to add_documents
MaxIndexLen == 3    \* add_documents is not called once index.ntotal would exceed this
MaxFaissId == 2     \* add_documents is not called once it would assign a larger faiss_id
MaxTopK == 2        \* largest top_k passed to search
MaxFaults == 1      \* storage failures (sqlite3 / faiss I/O errors) injected in one run

\* ---------------------------------------------------------------- values
None == "None"

\* id, asset_id, project_id, chunk_index and text of the documents callers
\* build: id is "{asset_id}_{chunk_index}", project_id is the asset's project,
\* text is the chunk's text.
DocKeys ==
    { [id |-> "a1_0", asset_id |-> "a1", project_id |-> "p1", chunk_index |-> 0,
       text |-> "text of a1_0"],
      [id |-> "a2_0", asset_id |-> "a2", project_id |-> "p1", chunk_index |-> 0,
       text |-> "text of a2_0"],
      [id |-> "a3_0", asset_id |-> "a3", project_id |-> "p2", chunk_index |-> 0,
       text |-> "text of a3_0"] }

AssetIds == {k.asset_id : k \in DocKeys}
ProjectIds == {k.project_id : k \in DocKeys}

\* Dimensions a store is constructed with, and the embeddings callers pass.
Dimensions == {1, 2}
Embeddings == {<<0>>, <<1>>, <<0, 0>>}

VectorDocument(k, e) ==
    [id |-> k.id, asset_id |-> k.asset_id, project_id |-> k.project_id,
     chunk_index |-> k.chunk_index, text |-> k.text, embedding |-> e]

Documents == {VectorDocument(k, e) : k \in DocKeys, e \in Embeddings}

Batches == UNION {[1..n -> Documents] : n \in 0..MaxBatch}

VARIABLES
    dimension,  \* self.dimension
    db,         \* committed rows of table vectors
    index,      \* self.index: sequence of [id, vec]
    file,       \* the .faiss file: [exists, entries]
    assigned,   \* history: faiss_ids committed by add_documents calls so far
    faults,     \* history: storage failures injected so far
    lastOp,     \* the last completed call and how it ended
    orc,        \* one SemanticSearchOrchestrator call: its arguments and how it ended
    emb,        \* one EmbeddingGenerator.generate_embeddings_batch call
    chk,        \* one chunk_text call
    ing,        \* the assets table and the stored vectors, as ingest_asset sees them
    gen,        \* the generation records and their background tasks
    cadd,       \* one store under two add_documents calls that interleave
    lock        \* one asset row under two ingestion runs that interleave

storeVars == <<dimension, db, index, file, assigned, faults, lastOp>>
vars == <<dimension, db, index, file, assigned, faults, lastOp, orc, emb, chk, ing,
          gen, cadd, lock>>

\* ---------------------------------------------------------------- helpers
Range(s) == {s[i] : i \in 1..Len(s)}

SetMax(S) == CHOOSE x \in S : \A y \in S : y <= x
SetMin(S) == CHOOSE x \in S : \A y \in S : x <= y

Min2(a, b) == IF a <= b THEN a ELSE b

IndexIds(ix) == {ix[i].id : i \in 1..Len(ix)}
FaissIds(table) == {r.faiss_id : r \in table}

\* SELECT COUNT(*) FROM vectors [WHERE project_id = ?]
get_document_count(table, project_id) ==
    IF project_id # None
    THEN Cardinality({r \in table : r.project_id = project_id})
    ELSE Cardinality(table)

\* SELECT MAX(faiss_id) FROM vectors, -1 when the table is empty, plus one
_get_next_faiss_id(table) ==
    LET max_id == IF table = {} THEN -1 ELSE SetMax(FaissIds(table))
    IN  max_id + 1

Row(doc, faiss_id) ==
    [id |-> doc.id, asset_id |-> doc.asset_id, project_id |-> doc.project_id,
     chunk_index |-> doc.chunk_index, text |-> doc.text,
     embedding |-> doc.embedding, faiss_id |-> faiss_id]

InsertOrReplace_KeepsConflicts(table, row) == table \cup {row}

\* INSERT OR REPLACE: id is the PRIMARY KEY and faiss_id is UNIQUE, so every
\* row that conflicts on either is deleted before the new row is inserted.
InsertOrReplace(table, row) ==
    {r \in table : r.id # row.id /\ r.faiss_id # row.faiss_id} \cup {row}

RECURSIVE InsertAll(_, _, _, _)
InsertAll(table, documents, start_id, i) ==
    IF i > Len(documents) THEN table
    ELSE InsertAll(InsertOrReplace(table, Row(documents[i], start_id + (i - 1))),
                   documents, start_id, i + 1)

\* index.add_with_ids(vectors, faiss_ids): appends, never replaces
add_with_ids(ix, documents, start_id) ==
    ix \o [i \in 1..Len(documents) |->
              [id |-> start_id + (i - 1), vec |-> documents[i].embedding]]

\* SELECT embedding, faiss_id FROM vectors ORDER BY faiss_id, added to a new index
RECURSIVE RowsByFaissId(_)
RowsByFaissId(table) ==
    IF table = {} THEN <<>>
    ELSE LET r == CHOOSE x \in table : x.faiss_id = SetMin(FaissIds(table))
         IN  <<[id |-> r.faiss_id, vec |-> r.embedding]>> \o RowsByFaissId(table \ {r})

\* the rebuilt index numbered 0, 1, 2, ... by position instead of by faiss_id
_rebuild_faiss_index_Renumbered(table) ==
    [i \in 1..Len(RowsByFaissId(table)) |->
        [id |-> i - 1, vec |-> RowsByFaissId(table)[i].vec]]

_rebuild_faiss_index(table) == RowsByFaissId(table)

Saved(ix) == [exists |-> TRUE, entries |-> ix]
NoFile == [exists |-> FALSE, entries |-> <<>>]

\* np.array(..., dtype=float32) raises on a ragged list
Ragged(documents) ==
    \E i, j \in 1..Len(documents) :
        Len(documents[i].embedding) # Len(documents[j].embedding)

\* the dimension validated on the first document only
ValidationFails_FirstOnly(documents, dim) ==
    Len(documents[1].embedding) # dim

\* vectors.shape[1] != self.dimension, shape[1] being the common length
ValidationFails(documents, dim) ==
    Ragged(documents) \/ Len(documents[1].embedding) # dim

\* What a caller can see of the batch, independent of the code path taken
HasMismatch(documents, dim) ==
    \E i \in 1..Len(documents) : Len(documents[i].embedding) # dim

\* The record of a completed call: its name, whether it raised and at which
\* step, the asset or project a delete was given, whether an add was given a
\* batch with a wrong-length embedding, and n: how many results a search
\* returned, how many rows a delete removed.
Op(op, raised, step, arg, mismatch, n) ==
    [op |-> op, raised |-> raised, step |-> step, arg |-> arg,
     mismatch |-> mismatch, n |-> n]

\* A storage call fails only while the run's failure budget lasts.
Inject(fail) ==
    IF fail = "none" THEN faults' = faults
    ELSE faults < MaxFaults /\ faults' = faults + 1

\* ---------------------------------------------------------------- search
RECURSIVE L2sqr(_, _, _)
\* IndexFlatL2's metric: the squared Euclidean distance
L2sqr(x, y, i) ==
    IF i > Len(x) \/ i > Len(y) THEN 0
    ELSE (x[i] - y[i]) * (x[i] - y[i]) + L2sqr(x, y, i + 1)

Distance(x, y) == L2sqr(x, y, 1)

\* index.search(query_vector, k) on the flat index, k <= ntotal: the positions of
\* the k nearest entries in ascending distance. faiss leaves the order of entries
\* at equal distance to its heap, so every such order is a possible answer.
faiss_search(ix, q, k) ==
    { c \in [1..k -> 1..Len(ix)] :
        /\ \A i, j \in 1..k :
              i < j => /\ c[i] # c[j]
                       /\ Distance(ix[c[i]].vec, q) <= Distance(ix[c[j]].vec, q)
        /\ \A p \in (1..Len(ix)) \ Range(c) :
              \A i \in 1..k : Distance(ix[c[i]].vec, q) <= Distance(ix[p].vec, q) }

\* the asset_id filter left out of the query
doc_map_NoAssetFilter(table, faiss_ids, project_id, asset_id) ==
    { r \in table :
        /\ r.faiss_id \in faiss_ids
        /\ (project_id # None => r.project_id = project_id) }

\* SELECT ... FROM vectors WHERE faiss_id IN (...) [AND project_id = ?] [AND asset_id = ?]
doc_map(table, faiss_ids, project_id, asset_id) ==
    { r \in table :
        /\ r.faiss_id \in faiss_ids
        /\ (project_id # None => r.project_id = project_id)
        /\ (asset_id # None => r.asset_id = asset_id) }

\* score = 1.0 / (1.0 + distance), kept as the fraction num/den
Score(distance) == [num |-> 1, den |-> 1 + distance]

ScoreLess(a, b) == a.num * b.den < b.num * a.den

SearchResult(r, distance) ==
    [document |-> [id |-> r.id, asset_id |-> r.asset_id, project_id |-> r.project_id,
                   chunk_index |-> r.chunk_index, text |-> r.text,
                   embedding |-> <<>>],
     score |-> Score(distance)]

RECURSIVE BuildResults(_, _, _, _, _)
\* one result per hit whose faiss_id is in doc_map, in the order faiss returned them
BuildResults(c, ix, q, rows, i) ==
    IF i > Len(c) THEN <<>>
    ELSE LET hit == ix[c[i]]
             found == {r \in rows : r.faiss_id = hit.id}
         IN  IF found = {} THEN BuildResults(c, ix, q, rows, i + 1)
             ELSE <<SearchResult(CHOOSE r \in found : TRUE, Distance(hit.vec, q))>>
                     \o BuildResults(c, ix, q, rows, i + 1)

RECURSIVE InsertByScore(_, _)
\* list.sort(key=score, reverse=True) is stable: x goes after every element
\* whose score is not smaller
InsertByScore(sorted, x) ==
    IF sorted = <<>> THEN <<x>>
    ELSE IF ScoreLess(Head(sorted).score, x.score) THEN <<x>> \o sorted
    ELSE <<Head(sorted)>> \o InsertByScore(Tail(sorted), x)

RECURSIVE SortByScore(_, _)
SortByScore(results, i) ==
    IF i = 0 THEN <<>>
    ELSE InsertByScore(SortByScore(results, i - 1), results[i])

\* results[:top_k]
Truncate(results, top_k) == SubSeq(results, 1, Min2(top_k, Len(results)))

Raised == [raised |-> TRUE, results |-> <<>>]
Returned(results) == [raised |-> FALSE, results |-> results]

\* The outcomes of search(query_embedding, top_k, project_id, asset_id)
search(table, ix, dim, query_embedding, top_k, project_id, asset_id) ==
    IF Len(ix) = 0 THEN {Returned(<<>>)}
    ELSE IF Len(query_embedding) # dim THEN {Raised}
    ELSE LET k == Min2(top_k * 3, Len(ix))
         IN  { Returned(Truncate(
                   LET rows == doc_map(table, {ix[c[i]].id : i \in 1..k}, project_id, asset_id)
                       results == BuildResults(c, ix, query_embedding, rows, 1)
                   IN  SortByScore(results, Len(results)),
                   top_k))
               : c \in faiss_search(ix, query_embedding, k) }

Queries == Embeddings
TopKs == 1..MaxTopK
ProjectFilters == ProjectIds \cup {None}
AssetFilters == AssetIds \cup {None}

\* ---------------------------------------------------------------- Init
\* FAISSSQLiteVectorStore(db_path) on a path with no database and no index file
Init ==
    /\ dimension \in Dimensions
    /\ db = {}
    /\ index = <<>>
    /\ file = NoFile
    /\ assigned = {}
    /\ faults = 0
    /\ lastOp = Op("__init__", FALSE, "", None, FALSE, 0)
    /\ orc = None
    /\ emb = None
    /\ chk = None
    /\ ing = None
    /\ gen = None
    /\ cadd = None
    /\ lock = None

\* ---------------------------------------------------------------- add_documents
AddFailSteps == {"none", "index", "insert", "commit", "save"}

add_documents(documents, fail) ==
    LET start_id == _get_next_faiss_id(db)
        new_index == add_with_ids(index, documents, start_id)
        new_db == InsertAll(db, documents, start_id, 1)
        new_ids == {start_id + (i - 1) : i \in 1..Len(documents)}
        mm == HasMismatch(documents, dimension)
    IN
    IF documents = <<>> THEN
        /\ fail = "none"
        /\ lastOp' = Op("add_documents", FALSE, "", None, FALSE, 0)
        /\ UNCHANGED <<dimension, db, index, file, assigned, faults>>
    ELSE IF ValidationFails(documents, dimension) THEN
        /\ fail = "none"
        /\ lastOp' = Op("add_documents", TRUE, "validate", None, mm, 0)
        /\ UNCHANGED <<dimension, db, index, file, assigned, faults>>
    ELSE
        /\ Len(index) + Len(documents) <= MaxIndexLen
        /\ start_id + Len(documents) - 1 <= MaxFaissId
        /\ Inject(fail)
        /\ CASE fail = "index" ->
                  \* index.add_with_ids raises: nothing was touched
                  /\ lastOp' = Op("add_documents", TRUE, "index", None, mm, 0)
                  /\ UNCHANGED <<dimension, db, index, file, assigned>>
             [] fail \in {"insert", "commit"} ->
                  \* cursor.execute or conn.commit raises: conn.rollback()
                  /\ index' = new_index
                  /\ lastOp' = Op("add_documents", TRUE, fail, None, mm, 0)
                  /\ UNCHANGED <<dimension, db, file, assigned>>
             [] fail = "save" ->
                  \* faiss.write_index raises after the commit: rollback is a no-op
                  /\ index' = new_index
                  /\ db' = new_db
                  /\ assigned' = assigned \cup new_ids
                  /\ lastOp' = Op("add_documents", TRUE, "save", None, mm, 0)
                  /\ UNCHANGED <<dimension, file>>
             [] fail = "none" ->
                  /\ index' = new_index
                  /\ db' = new_db
                  /\ file' = Saved(new_index)
                  /\ assigned' = assigned \cup new_ids
                  /\ lastOp' = Op("add_documents", FALSE, "", None, mm, 0)
                  /\ UNCHANGED dimension

AddDocuments ==
    /\ \E documents \in Batches, fail \in AddFailSteps : add_documents(documents, fail)
    /\ UNCHANGED <<orc, emb, chk, ing, gen, cadd, lock>>

\* ---------------------------------------------------------------- deletes, clear
DeleteFailSteps == {"none", "commit", "rebuild", "save"}

\* the WHERE clause comparing the wrong column
DeleteWhereAsset_ById(table, asset_id) == {r \in table : r.id # asset_id}

\* DELETE FROM vectors WHERE asset_id = ? / WHERE project_id = ?
DeleteWhereAsset(table, asset_id) == {r \in table : r.asset_id # asset_id}
DeleteWhereProject(table, project_id) == {r \in table : r.project_id # project_id}

\* The part delete_by_asset and delete_by_project share once the rows to
\* delete are known: DELETE, commit, _rebuild_faiss_index (which saves).
DeleteRows(op, arg, new_db, fail) ==
    /\ Inject(fail)
    /\ CASE fail = "commit" ->
              \* DELETE or commit raises: rollback, nothing changed
              /\ lastOp' = Op(op, TRUE, "commit", arg, FALSE, 0)
              /\ UNCHANGED <<dimension, db, index, file, assigned>>
         [] fail = "rebuild" ->
              \* the SELECT of _rebuild_faiss_index raises after the commit
              /\ db' = new_db
              /\ lastOp' = Op(op, TRUE, "rebuild", arg, FALSE, 0)
              /\ UNCHANGED <<dimension, index, file, assigned>>
         [] fail = "save" ->
              \* the index was rebuilt in memory, faiss.write_index raises
              /\ db' = new_db
              /\ index' = _rebuild_faiss_index(new_db)
              /\ lastOp' = Op(op, TRUE, "save", arg, FALSE, 0)
              /\ UNCHANGED <<dimension, file, assigned>>
         [] fail = "none" ->
              /\ db' = new_db
              /\ index' = _rebuild_faiss_index(new_db)
              /\ file' = Saved(_rebuild_faiss_index(new_db))
              /\ lastOp' = Op(op, FALSE, "", arg, FALSE, Cardinality(db) - Cardinality(new_db))
              /\ UNCHANGED <<dimension, assigned>>

delete_by_asset(asset_id, fail) ==
    IF {r \in db : r.asset_id = asset_id} = {} THEN
        \* no faiss_ids selected: return without deleting or rebuilding
        /\ fail = "none"
        /\ lastOp' = Op("delete_by_asset", FALSE, "", asset_id, FALSE, 0)
        /\ UNCHANGED <<dimension, db, index, file, assigned, faults>>
    ELSE DeleteRows("delete_by_asset", asset_id, DeleteWhereAsset(db, asset_id), fail)

delete_by_project(project_id, fail) ==
    DeleteRows("delete_by_project", project_id, DeleteWhereProject(db, project_id), fail)

DeleteByAsset ==
    /\ \E a \in AssetIds, fail \in DeleteFailSteps : delete_by_asset(a, fail)
    /\ UNCHANGED <<orc, emb, chk, ing, gen, cadd, lock>>

DeleteByProject ==
    /\ \E p \in ProjectIds, fail \in DeleteFailSteps : delete_by_project(p, fail)
    /\ UNCHANGED <<orc, emb, chk, ing, gen, cadd, lock>>

ClearFailSteps == {"none", "commit", "save"}

clear(fail) ==
    /\ Inject(fail)
    /\ CASE fail = "commit" ->
              /\ lastOp' = Op("clear", TRUE, "commit", None, FALSE, 0)
              /\ UNCHANGED <<dimension, db, index, file, assigned>>
         [] fail = "save" ->
              \* index.reset() done, faiss.write_index raises
              /\ db' = {}
              /\ index' = <<>>
              /\ lastOp' = Op("clear", TRUE, "save", None, FALSE, 0)
              /\ UNCHANGED <<dimension, file, assigned>>
         [] fail = "none" ->
              /\ db' = {}
              /\ index' = <<>>
              /\ file' = Saved(<<>>)
              /\ lastOp' = Op("clear", FALSE, "", None, FALSE, 0)
              /\ UNCHANGED <<dimension, assigned>>

Clear ==
    /\ \E fail \in ClearFailSteps : clear(fail)
    /\ UNCHANGED <<orc, emb, chk, ing, gen, cadd, lock>>

\* ---------------------------------------------------------------- search (read-only)
Search ==
    \E q \in Queries, top_k \in TopKs, p \in ProjectFilters, a \in AssetFilters :
        \E out \in search(db, index, dimension, q, top_k, p, a) :
            /\ lastOp' = Op("search", out.raised, "", None, FALSE, Len(out.results))
            /\ UNCHANGED <<dimension, db, index, file, assigned, faults>>
            /\ UNCHANGED <<orc, emb, chk, ing, gen, cadd, lock>>

\* ---------------------------------------------------------------- restart
\* A fresh FAISSSQLiteVectorStore on the same db_path: _init_faiss_index then
\* _load_vectors_from_db. The file is read whenever it exists; otherwise the
\* index is rebuilt from the rows and saved (nothing is saved for no rows).
_load_vectors_from_db ==
    IF file.exists THEN
        /\ index' = file.entries
        /\ UNCHANGED file
    ELSE IF db = {} THEN
        /\ index' = <<>>
        /\ UNCHANGED file
    ELSE
        /\ index' = _rebuild_faiss_index(db)
        /\ file' = Saved(_rebuild_faiss_index(db))

Restart ==
    /\ _load_vectors_from_db
    /\ lastOp' = Op("__init__", FALSE, "", None, FALSE, 0)
    /\ UNCHANGED <<dimension, db, assigned, faults>>
    /\ UNCHANGED <<orc, emb, chk, ing, gen, cadd, lock>>

Next ==
    \/ AddDocuments
    \/ DeleteByAsset
    \/ DeleteByProject
    \/ Clear
    \/ Search
    \/ Restart

Spec == Init /\ [][Next]_vars

\* ================================================================ strings
\* A str is a sequence of one-character strings. " " is the only whitespace
\* character used; "M" and "K" are the upper-case forms of "m" and "k".
str_lower(s) ==
    [i \in 1..Len(s) |-> CASE s[i] = "M" -> "m" [] s[i] = "K" -> "k" [] OTHER -> s[i]]

RECURSIVE str_lstrip(_)
str_lstrip(s) == IF s # <<>> /\ s[1] = " " THEN str_lstrip(Tail(s)) ELSE s

RECURSIVE str_rstrip(_)
str_rstrip(s) ==
    IF s # <<>> /\ s[Len(s)] = " " THEN str_rstrip(SubSeq(s, 1, Len(s) - 1)) ELSE s

str_strip(s) == str_rstrip(str_lstrip(s))

RECURSIVE SplitFrom(_, _, _, _)
\* str.split(): the maximal runs of non-whitespace characters, in order
SplitFrom(s, i, word, words) ==
    IF i > Len(s) THEN (IF word = <<>> THEN words ELSE Append(words, word))
    ELSE IF s[i] = " "
         THEN SplitFrom(s, i + 1, <<>>, IF word = <<>> THEN words ELSE Append(words, word))
         ELSE SplitFrom(s, i + 1, Append(word, s[i]), words)

str_split(s) == SplitFrom(s, 1, <<>>, <<>>)

\* `needle in hay` for two strs
str_contains(hay, needle) ==
    \E i \in 0..(Len(hay) - Len(needle)) : SubSeq(hay, i + 1, i + Len(needle)) = needle

\* ================================================================ semantic search
\* backend/core/semantic_search.py: SemanticSearchOrchestrator.

\* Scores are floats in the code; here a score is an integer number of
\* 1/Scale units, so that 0.2, 0.1, 0.05, 0.02 and a third of 0.2 are exact.
Scale == 600

KEYWORD_BOOST_MAX == (2 * Scale) \div 10      \* 0.2
LENGTH_BONUS == Scale \div 10                 \* 0.1
LENGTH_PENALTY == (5 * Scale) \div 100        \* 0.05
METADATA_PER_KEY == (2 * Scale) \div 100      \* 0.02
METADATA_BOOST_MAX == Scale \div 10           \* 0.1

MaxCandidates == 3   \* longest list the vector store hands back to the orchestrator
MaxSearchTopK == 2   \* largest top_k passed to SemanticSearchOrchestrator.search

\* The text of a document is `chars` followed by `pad` further characters
\* that are neither whitespace nor part of any query word (and have no
\* upper-case form), so that texts of 1000 characters need no 1000 elements.
DocText(chars, length) == [chars |-> chars, pad |-> length - Len(chars)]
text_len(text) == Len(text.chars) + text.pad
text_lower(text) == [text EXCEPT !.chars = str_lower(text.chars)]
word_in_text(word, text) == str_contains(text.chars, word)

\* The results a vector store search can hand back: documents whose text
\* lengths sit on both sides of 50, 100, 500 and 1000, with 0 to 6 metadata keys.
Candidate(id, chars, length, metadata_keys, score) ==
    [document |-> [id |-> id, text |-> DocText(chars, length),
                   metadata_keys |-> metadata_keys],
     score |-> score]

CandidatePool ==
    { Candidate("d1", <<"m", " ", "k">>, 100, 1, (85 * Scale) \div 100),
      Candidate("d2", <<"M">>, 49, 0, (75 * Scale) \div 100),
      Candidate("d3", <<"k">>, 1001, 6, (65 * Scale) \div 100),
      Candidate("d4", <<"z">>, 50, 5, (75 * Scale) \div 100),
      Candidate("d5", <<"m", "k">>, 500, 2, (65 * Scale) \div 100),
      Candidate("d6", <<"z", " ", "m">>, 501, 0, (85 * Scale) \div 100),
      Candidate("d7", <<"K">>, 1000, 3, (75 * Scale) \div 100),
      Candidate("d8", <<"k", " ", "z">>, 99, 0, (65 * Scale) \div 100) }

CandidateLists == UNION {[1..n -> CandidatePool] : n \in 0..MaxCandidates}

\* Query strings: empty, whitespace only, one word, a word to be trimmed,
\* two words of mixed case, three words of which documents match at most two.
SearchQueries ==
    { <<>>,
      <<" ">>,
      <<"m">>,
      <<" ", "k", " ">>,
      <<"M", " ", "k">>,
      <<"m", " ", "q", " ", "k">> }

SearchTopKs == 1..MaxSearchTopK

\* EmbeddingGenerator.generate_embedding as the orchestrator sees it: some
\* vector determined by the text it was given.
query_embedding_of(text) == [embedding_of |-> text]

RECURSIVE InsertDesc(_, _)
\* x, which came before every element of `sorted` in the list being sorted,
\* goes in front of the first element whose score is not greater
InsertDesc(sorted, x) ==
    IF sorted = <<>> THEN <<x>>
    ELSE IF Head(sorted).score > x.score THEN <<Head(sorted)>> \o InsertDesc(Tail(sorted), x)
    ELSE <<x>> \o sorted

RECURSIVE SortDesc(_, _)
\* list.sort(key=lambda x: x.score, reverse=True): descending and stable
SortDesc(results, i) ==
    IF i > Len(results) THEN <<>>
    ELSE InsertDesc(SortDesc(results, i + 1), results[i])

\* keyword boost of one result: 0.2 times the fraction of query words found in the text
keyword_boost(query, text) ==
    LET query_words == str_split(str_lower(query))
        matched_words == Cardinality({i \in 1..Len(query_words) :
                                        word_in_text(query_words[i], text_lower(text))})
    IN  IF matched_words > 0
        THEN Min2(KEYWORD_BOOST_MAX, (matched_words * KEYWORD_BOOST_MAX) \div Len(query_words))
        ELSE 0

length_score(text) ==
    IF 100 <= text_len(text) /\ text_len(text) <= 500 THEN LENGTH_BONUS
    ELSE IF text_len(text) < 50 THEN 0 - LENGTH_PENALTY
    ELSE IF text_len(text) > 1000 THEN 0 - LENGTH_PENALTY
    ELSE 0

metadata_boost(metadata_keys) ==
    IF metadata_keys > 0 THEN Min2(METADATA_BOOST_MAX, metadata_keys * METADATA_PER_KEY) ELSE 0

final_score(query, result) ==
    result.score + keyword_boost(query, result.document.text)
        + length_score(result.document.text)
        + metadata_boost(result.document.metadata_keys)

\* the scored list sorted in ascending order
_rerank_results_Ascending(query, results) ==
    LET reranked == [i \in 1..Len(results) |->
                        [document |-> results[i].document,
                         score |-> final_score(query, results[i])]]
        n == Len(reranked)
        desc == SortDesc(reranked, 1)
    IN  [i \in 1..n |-> desc[n + 1 - i]]

_rerank_results(query, results) ==
    IF results = <<>> THEN results
    ELSE SortDesc([i \in 1..Len(results) |->
                      [document |-> results[i].document,
                       score |-> final_score(query, results[i])]], 1)

\* What the orchestrator's collaborators do during one search call:
\*   "embed"              generate_embedding raises
\*   "VectorStoreError"   vector_store.search raises VectorStoreError
\*   "Exception"          vector_store.search raises another exception
\*   "rerank"             an exception is raised while re-ranking
SearchFailPoints == {"none", "embed", "VectorStoreError", "Exception", "rerank"}

SearchReturned(results, embed_calls, store_calls) ==
    [raised |-> FALSE, error |-> "", results |-> results,
     embed_calls |-> embed_calls, store_calls |-> store_calls]

SearchRaised(error, embed_calls, store_calls) ==
    [raised |-> TRUE, error |-> error, results |-> <<>>,
     embed_calls |-> embed_calls, store_calls |-> store_calls]

\* `if rerank and len(results) > 1`
rerank_step(rerank, results) == rerank /\ Len(results) > 1

\* the over-fetch requested whether or not re-ranking is on
search_k_AlwaysTriple(top_k, rerank) == top_k * 3

search_k(top_k, rerank) == IF rerank THEN top_k * 3 ELSE top_k

\* an embedder failure reported as a vector store failure
error_for_NoDistinction(fail) == "Vector store search failed"

\* the two except clauses of search
error_for(fail) ==
    IF fail = "VectorStoreError" THEN "Vector store search failed"
    ELSE "Semantic search failed"

\* SemanticSearchOrchestrator.search; store_returns is what vector_store.search
\* returns when it is called and does not raise.
semantic_search(query, project_id, asset_id, top_k, rerank, store_returns, fail) ==
    IF query = <<>> \/ str_strip(query) = <<>> THEN SearchReturned(<<>>, <<>>, <<>>)
    ELSE
        LET embed_calls == <<str_strip(query)>>
            store_calls == <<[query_embedding |-> query_embedding_of(str_strip(query)),
                              top_k |-> search_k(top_k, rerank),
                              project_id |-> project_id,
                              asset_id |-> asset_id]>>
        IN  IF fail = "embed" THEN SearchRaised(error_for(fail), embed_calls, <<>>)
            ELSE IF fail \in {"VectorStoreError", "Exception"}
                 THEN SearchRaised(error_for(fail), embed_calls, store_calls)
            ELSE IF store_returns = <<>> THEN SearchReturned(<<>>, embed_calls, store_calls)
            ELSE IF rerank_step(rerank, store_returns)
                 THEN IF fail = "rerank"
                      THEN SearchRaised(error_for(fail), embed_calls, store_calls)
                      ELSE SearchReturned(Truncate(_rerank_results(query, store_returns), top_k),
                                          embed_calls, store_calls)
            ELSE SearchReturned(Truncate(store_returns, top_k), embed_calls, store_calls)

\* ---------------------------------------------------------------- the calls
\* The store, embedder and chunker variables play no part here.
StoreUnused ==
    /\ dimension = 1
    /\ db = {}
    /\ index = <<>>
    /\ file = NoFile
    /\ assigned = {}
    /\ faults = 0
    /\ lastOp = Op("__init__", FALSE, "", None, FALSE, 0)

\* One call is about to be made with these arguments; the orchestrator keeps
\* no state between calls.
InitSemanticSearch ==
    /\ StoreUnused
    /\ emb = None
    /\ chk = None
    /\ ing = None
    /\ gen = None
    /\ cadd = None
    /\ lock = None
    /\ \E query \in SearchQueries, top_k \in SearchTopKs, rerank \in BOOLEAN,
          project_id \in {None, "p1"}, asset_id \in {None, "a1"},
          store_returns \in CandidateLists :
          orc = [op |-> "", query |-> query, top_k |-> top_k, rerank |-> rerank,
                 project_id |-> project_id, asset_id |-> asset_id,
                 store_returns |-> store_returns, fail |-> "none",
                 out |-> SearchReturned(<<>>, <<>>, <<>>)]

\* await orchestrator.search(query, project_id, asset_id, top_k, rerank)
SemanticSearch ==
    /\ orc.op = ""
    /\ \E fail \in SearchFailPoints :
          \* a collaborator can only fail where it is called
          /\ fail # "none" => str_strip(orc.query) # <<>>
          /\ fail = "rerank" => rerank_step(orc.rerank, orc.store_returns)
          /\ orc' = [orc EXCEPT
                    !.op = "search",
                    !.fail = fail,
                    !.out = semantic_search(orc.query, orc.project_id, orc.asset_id,
                                            orc.top_k, orc.rerank, orc.store_returns, fail)]
    /\ UNCHANGED <<storeVars, emb, chk, ing, gen, cadd, lock>>

\* orchestrator._rerank_results(query, results) called directly
RerankResults ==
    /\ orc.op = ""
    /\ orc' = [orc EXCEPT
                 !.op = "_rerank_results",
                 !.out = SearchReturned(_rerank_results(orc.query, orc.store_returns),
                                        <<>>, <<>>)]
    /\ UNCHANGED <<storeVars, emb, chk, ing, gen, cadd, lock>>

NextSemanticSearch == SemanticSearch \/ RerankResults

SpecSemanticSearch == InitSemanticSearch /\ [][NextSemanticSearch]_vars

\* ================================================================ embeddings
\* backend/core/embeddings.py: EmbeddingGenerator.

EmbeddingDimension == 2   \* model.get_sentence_embedding_dimension()
MaxTexts == 4             \* longest list passed to generate_embeddings_batch

\* texts handed to the generator: empty, whitespace only, and three with content,
\* one of them with a blank at each end
EmbedTexts == { <<>>, <<" ">>, <<"m">>, <<"k">>, <<" ", "m", " ">> }

TextLists == UNION {[1..n -> EmbedTexts] : n \in 0..MaxTexts}

\* [0.0] * dimension
zero_vector == [i \in 1..EmbeddingDimension |-> 0]

RECURSIVE text_code(_, _)
\* a number that differs for any two texts: the characters of the text read
\* as the digits of a number in base 4
text_code(text, n) ==
    IF n = 0 THEN 0
    ELSE 4 * text_code(text, n - 1)
           + (CASE text[n] = " " -> 1 [] text[n] = "m" -> 2 [] OTHER -> 3)

\* SentenceTransformer.encode(text, normalize_embeddings=True) for one text:
\* a non-zero vector of the model's dimension that depends on the text as
\* given (blanks included) and on nothing else.
model_encode(text) ==
    [i \in 1..EmbeddingDimension |-> IF i = 1 THEN 1 ELSE text_code(text, Len(text))]

\* SentenceTransformer.encode(list of texts): one row per text, in order
model_encode_batch(texts) == [i \in 1..Len(texts) |-> model_encode(texts[i])]

generate_embedding(text) ==
    IF str_strip(text) = <<>> THEN zero_vector ELSE model_encode(text)

RECURSIVE non_empty_indices(_, _)
\* the loop that collects non_empty_texts and indices
non_empty_indices(texts, i) ==
    IF i > Len(texts) THEN <<>>
    ELSE IF str_strip(texts[i]) # <<>> THEN <<i>> \o non_empty_indices(texts, i + 1)
    ELSE non_empty_indices(texts, i + 1)

RECURSIVE build_result(_, _, _, _, _)
\* the loop that builds result: the next embedding for an index that was
\* kept, a zero vector for any other
build_result(texts, indices, embeddings, i, embedding_idx) ==
    IF i > Len(texts) THEN <<>>
    ELSE IF i \in Range(indices)
         THEN <<embeddings[embedding_idx]>>
                 \o build_result(texts, indices, embeddings, i + 1, embedding_idx + 1)
         ELSE <<zero_vector>> \o build_result(texts, indices, embeddings, i + 1, embedding_idx)

\* the embeddings of the non-empty texts returned as they are, without the
\* zero vectors of the empty ones
generate_embeddings_batch_DropsEmpty(texts) ==
    LET indices == non_empty_indices(texts, 1)
        non_empty_texts == [j \in 1..Len(indices) |-> texts[indices[j]]]
    IN  IF non_empty_texts = <<>> THEN [result |-> <<>>, model_calls |-> <<>>]
        ELSE [result |-> model_encode_batch(non_empty_texts),
              model_calls |-> <<non_empty_texts>>]

\* result: the list returned; model_calls: the lists passed to model.encode
generate_embeddings_batch(texts) ==
    LET indices == non_empty_indices(texts, 1)
        non_empty_texts == [j \in 1..Len(indices) |-> texts[indices[j]]]
    IN  IF texts = <<>> THEN [result |-> <<>>, model_calls |-> <<>>]
        ELSE IF non_empty_texts = <<>>
             THEN [result |-> [i \in 1..Len(texts) |-> zero_vector], model_calls |-> <<>>]
        ELSE [result |-> build_result(texts, indices,
                                      model_encode_batch(non_empty_texts), 1, 1),
              model_calls |-> <<non_empty_texts>>]

\* One call is about to be made with this list; the generator keeps no state
\* between calls besides the loaded model.
InitEmbeddings ==
    /\ StoreUnused
    /\ orc = None
    /\ chk = None
    /\ ing = None
    /\ gen = None
    /\ cadd = None
    /\ lock = None
    /\ \E texts \in TextLists :
          emb = [op |-> "", texts |-> texts, result |-> <<>>, model_calls |-> <<>>]

\* generator.generate_embeddings_batch(texts)
GenerateEmbeddingsBatch ==
    /\ emb.op = ""
    /\ emb' = [emb EXCEPT
                 !.op = "generate_embeddings_batch",
                 !.result = generate_embeddings_batch(emb.texts).result,
                 !.model_calls = generate_embeddings_batch(emb.texts).model_calls]
    /\ UNCHANGED <<storeVars, orc, chk, ing, gen, cadd, lock>>

NextEmbeddings == GenerateEmbeddingsBatch

SpecEmbeddings == InitEmbeddings /\ [][NextEmbeddings]_vars

\* ================================================================ chunking
\* backend/core/chunking.py: chunk_text and its helpers, on strs over the
\* characters "a" (a letter), " " (whitespace) and "." (a sentence ending).

MaxTextLen == 8      \* longest text passed to chunk_text
MaxChunkSize == 2    \* largest chunk_size passed to chunk_text
MaxChunkOverlap == 1 \* largest chunk_overlap passed to chunk_text

CHARS_PER_TOKEN == 4 \* "roughly 4 characters per token"

Alphabet == {"a", " ", "."}
ChunkTexts == UNION {[1..n -> Alphabet] : n \in 0..MaxTextLen}
ChunkSizes == 1..MaxChunkSize
ChunkOverlaps == 0..MaxChunkOverlap

\* How tokens are counted: "tiktoken" when tiktoken.get_encoding and encode
\* work, "fallback" when they raise and the except branches run.
Encodings == {"tiktoken", "fallback"}

RECURSIVE RunEnd(_, _, _)
\* the last index of the run of characters c that starts at i
RunEnd(s, i, c) == IF i < Len(s) /\ s[i + 1] = c THEN RunEnd(s, i + 1, c) ELSE i

\* f"{a} {b}"
Joined(a, b) == a \o <<" ">> \o b

\* The tokens of a text, as the indices at which they start. tiktoken's
\* cl100k_base is taken to produce one token per word, the whitespace before a
\* word belonging to the word's token, so that decoding the tokens gives the
\* text back.
RECURSIVE TokenStarts(_, _)
TokenStarts(s, i) ==
    IF i > Len(s) THEN <<>>
    ELSE LET w == IF s[i] = " " THEN RunEnd(s, i, " ") + 1 ELSE i   \* first letter
             RECURSIVE WordEnd(_)
             WordEnd(j) == IF j < Len(s) /\ s[j + 1] # " " THEN WordEnd(j + 1) ELSE j
         IN  IF w > Len(s) THEN <<i>>
             ELSE <<i>> \o TokenStarts(s, WordEnd(w) + 1)

get_token_count(text, encoding) ==
    IF encoding = "tiktoken" THEN Len(TokenStarts(text, 1))
    ELSE Len(text) \div CHARS_PER_TOKEN

\* re.split(r"[.!?]+(?:\s+|$)", text): a run of sentence endings is a
\* separator, together with the whitespace after it, when whitespace or the
\* end of the text follows it; otherwise it stays in the piece.
RECURSIVE re_split(_, _, _, _)
re_split(s, i, piece, pieces) ==
    IF i > Len(s) THEN Append(pieces, piece)
    ELSE IF s[i] = "."
         THEN LET j == RunEnd(s, i, ".")
              IN  IF j = Len(s) THEN Append(Append(pieces, piece), <<>>)
                  ELSE IF s[j + 1] = " "
                       THEN re_split(s, RunEnd(s, j + 1, " ") + 1, <<>>, Append(pieces, piece))
                  ELSE re_split(s, j + 1, piece \o SubSeq(s, i, j), pieces)
         ELSE re_split(s, i + 1, Append(piece, s[i]), pieces)

RECURSIVE StripNonEmpty(_, _)
\* [s.strip() for s in sentences if s.strip()]
StripNonEmpty(pieces, i) ==
    IF i > Len(pieces) THEN <<>>
    ELSE IF str_strip(pieces[i]) = <<>> THEN StripNonEmpty(pieces, i + 1)
    ELSE <<str_strip(pieces[i])>> \o StripNonEmpty(pieces, i + 1)

split_text_at_sentences(text) == StripNonEmpty(re_split(text, 1, <<>>, <<>>), 1)

RECURSIVE WordSegments(_, _, _, _, _)
\* the loop of split_text_at_words over words = text.split()
WordSegments(words, i, current_segment, segments, max_length) ==
    IF i > Len(words)
    THEN (IF current_segment # <<>> THEN Append(segments, current_segment) ELSE segments)
    ELSE LET test_segment == str_strip(Joined(current_segment, words[i]))
         IN  IF Len(test_segment) <= max_length
             THEN WordSegments(words, i + 1, test_segment, segments, max_length)
             ELSE WordSegments(words, i + 1, words[i],
                               IF current_segment # <<>>
                               THEN Append(segments, current_segment) ELSE segments,
                               max_length)

split_text_at_words(text, max_length) ==
    IF Len(text) <= max_length THEN <<text>>
    ELSE WordSegments(str_split(text), 1, <<>>, <<>>, max_length)

\* the last overlap_tokens tokens of text decoded, or the last
\* overlap_tokens * 4 characters in the except branch
_extract_overlap_text(text, overlap_tokens, encoding) ==
    IF encoding = "tiktoken"
    THEN LET tokens == TokenStarts(text, 1)
         IN  IF Len(tokens) > overlap_tokens
             THEN SubSeq(text, tokens[Len(tokens) - overlap_tokens + 1], Len(text))
             ELSE text
    ELSE LET overlap_chars == overlap_tokens * CHARS_PER_TOKEN
         IN  IF Len(text) > overlap_chars
             THEN SubSeq(text, Len(text) - overlap_chars + 1, Len(text))
             ELSE text

TextChunk(text, chunk_index, start_char, end_char, token_count) ==
    [text |-> text, chunk_index |-> chunk_index, start_char |-> start_char,
     end_char |-> end_char, token_count |-> token_count]

\* The local variables of chunk_text while it loops
ChunkState(chunks, current_chunk_text, current_chunk_start, chunk_index) ==
    [chunks |-> chunks, current_chunk_text |-> current_chunk_text,
     current_chunk_start |-> current_chunk_start, chunk_index |-> chunk_index]

\* "save current chunk, start a new one with overlap" (lines 137-159 and
\* 182-203): requires st.current_chunk_text # <<>>; next is the sentence or
\* the part the new chunk starts with.
SaveAndStart(st, next, chunk_overlap, encoding) ==
    LET current_chunk_end == st.current_chunk_start + Len(st.current_chunk_text)
        saved == Append(st.chunks,
                        TextChunk(st.current_chunk_text, st.chunk_index,
                                  st.current_chunk_start, current_chunk_end,
                                  get_token_count(st.current_chunk_text, encoding)))
        overlap_text == _extract_overlap_text(st.current_chunk_text, chunk_overlap, encoding)
    IN  IF chunk_overlap > 0
        THEN ChunkState(saved, str_strip(Joined(overlap_text, next)),
                        current_chunk_end - Len(overlap_text), st.chunk_index + 1)
        ELSE ChunkState(saved, next, current_chunk_end, st.chunk_index + 1)

RECURSIVE AddParts(_, _, _, _, _, _)
\* the loop over sentence_parts (lines 169-203)
AddParts(st, parts, i, chunk_size, chunk_overlap, encoding) ==
    IF i > Len(parts) THEN st
    ELSE LET part == parts[i]
             test_with_part == IF st.current_chunk_text # <<>>
                               THEN str_strip(Joined(st.current_chunk_text, part))
                               ELSE part
             next == IF get_token_count(test_with_part, encoding) <= chunk_size
                     THEN [st EXCEPT !.current_chunk_text =
                              IF st.current_chunk_text # <<>>
                              THEN Joined(st.current_chunk_text, part) ELSE part]
                     ELSE IF st.current_chunk_text # <<>>
                          THEN SaveAndStart(st, part, chunk_overlap, encoding)
                          ELSE st
         IN  AddParts(next, parts, i + 1, chunk_size, chunk_overlap, encoding)

RECURSIVE AddSentences(_, _, _, _, _, _)
\* the loop over sentences (lines 127-203)
AddSentences(st, sentences, i, chunk_size, chunk_overlap, encoding) ==
    IF i > Len(sentences) THEN st
    ELSE LET sentence == sentences[i]
             test_chunk == str_strip(Joined(st.current_chunk_text, sentence))
         IN  IF get_token_count(test_chunk, encoding) <= chunk_size
             THEN AddSentences([st EXCEPT !.current_chunk_text = test_chunk],
                               sentences, i + 1, chunk_size, chunk_overlap, encoding)
             ELSE LET started == IF st.current_chunk_text # <<>>
                                 THEN SaveAndStart(st, sentence, chunk_overlap, encoding)
                                 ELSE st
                      split == IF get_token_count(sentence, encoding) > chunk_size
                               THEN AddParts(started,
                                             split_text_at_words(sentence,
                                                                 chunk_size * CHARS_PER_TOKEN),
                                             1, chunk_size, chunk_overlap, encoding)
                               ELSE started
                  IN  AddSentences(split, sentences, i + 1, chunk_size, chunk_overlap, encoding)

chunk_text(text, chunk_size, chunk_overlap, encoding) ==
    IF text = <<>> \/ str_strip(text) = <<>> THEN <<>>
    ELSE LET st == AddSentences(ChunkState(<<>>, <<>>, 0, 0),
                                split_text_at_sentences(text), 1,
                                chunk_size, chunk_overlap, encoding)
         IN  IF st.current_chunk_text # <<>>
             THEN Append(st.chunks,
                         TextChunk(st.current_chunk_text, st.chunk_index,
                                   st.current_chunk_start,
                                   st.current_chunk_start + Len(st.current_chunk_text),
                                   get_token_count(st.current_chunk_text, encoding)))
             ELSE st.chunks

\* One call is about to be made with these arguments; chunk_text keeps no state.
InitChunking ==
    /\ StoreUnused
    /\ orc = None
    /\ emb = None
    /\ ing = None
    /\ gen = None
    /\ cadd = None
    /\ lock = None
    /\ \E text \in ChunkTexts, chunk_size \in ChunkSizes, chunk_overlap \in ChunkOverlaps,
          encoding \in Encodings :
          chk = [op |-> "", text |-> text, chunk_size |-> chunk_size,
                 chunk_overlap |-> chunk_overlap, encoding |-> encoding, chunks |-> <<>>]

\* chunk_text(text, chunk_size, chunk_overlap)
ChunkText ==
    /\ chk.op = ""
    /\ chk' = [chk EXCEPT
                 !.op = "chunk_text",
                 !.chunks = chunk_text(chk.text, chk.chunk_size, chk.chunk_overlap,
                                       chk.encoding)]
    /\ UNCHANGED <<storeVars, orc, emb, ing, gen, cadd, lock>>

NextChunking == ChunkText

SpecChunking == InitChunking /\ [][NextChunking]_vars

\* ================================================================ ingestion
\* backend/core/ingestion.py: ingest_asset, called for one asset at a time.
\* ing.assets is the committed assets table (the ingested and ingesting
\* columns), ing.vectors the rows of the vector store that belong to these
\* assets, ing.last the last call and how it ended.

MaxChunks == 2

\* the rows of the assets table, and an id no row has
IngestAssets == {"a1", "a2"}
UnknownAsset == "a9"

\* Where a call fails:
\*   "lock_commit"     db.commit() of ingesting = True raises
\*   "delete"          vector_store.delete_by_asset raises VectorStoreError
\*   "storage"         storage.read raises FileNotFoundError or StorageError
\*   "extract"         extract_text_from_file raises DocumentProcessingError
\*   "empty_text"      the normalized text is blank
\*   "no_chunks"       chunk_text returns no chunk
\*   "embed"           generate_embeddings_batch raises
\*   "count_mismatch"  it returns another number of embeddings than chunks
\*   "add"             vector_store.add_documents raises VectorStoreError
\*   "unexpected"      any other exception inside the try block before the
\*                     vectors are stored
\*   "commit"          the final db.commit() raises
IngestFailSteps ==
    {"none", "lock_commit", "delete", "storage", "extract", "empty_text", "no_chunks",
     "embed", "count_mismatch", "add", "unexpected", "commit"}

\* the failures raised inside the try block, whose handlers reset the flag
HandledFailSteps ==
    {"storage", "extract", "empty_text", "no_chunks", "embed", "count_mismatch",
     "add", "unexpected", "commit"}

\* the failures of a call that has built its vector documents
AfterChunking == {"add", "commit"}

\* One call: reingest is asset.ingested as the call found it, store_calls the
\* vector store methods it called, in order, chunks the number of chunks
\* chunk_text gave it.
IngestCall(asset_id, raised, step, locked, reset_failed, reingest, store_calls, chunks) ==
    [op |-> "ingest_asset", asset_id |-> asset_id, raised |-> raised, step |-> step,
     locked |-> locked, reset_failed |-> reset_failed, reingest |-> reingest,
     store_calls |-> store_calls, chunks |-> chunks]

NoCall(asset_id, raised, step) ==
    IngestCall(asset_id, raised, step, FALSE, FALSE, FALSE, <<>>, 0)

\* A stored vector: its id is f"{asset_id}_{chunk_index}"; fresh tells the
\* vectors the last call produced from those of earlier calls.
StoredVector(asset_id, chunk_index, fresh) ==
    [asset_id |-> asset_id, chunk_index |-> chunk_index, fresh |-> fresh]

\* every stored vector is, at the start of a call, one of an earlier call
Aged(vectors) == {StoredVector(v.asset_id, v.chunk_index, FALSE) : v \in vectors}

DeleteAssetVectors_KeepsAll(vectors, asset_id) == vectors

\* vector_store.delete_by_asset(asset_id), as it leaves the table
DeleteAssetVectors(vectors, asset_id) == {v \in vectors : v.asset_id # asset_id}

\* the vector documents of one run, chunk_index 0 .. chunks - 1
vector_documents(asset_id, chunks) ==
    {StoredVector(asset_id, i, TRUE) : i \in 0..(chunks - 1)}

\* vector_store.add_documents(vector_documents), as it leaves the table:
\* INSERT OR REPLACE on the id
AddAssetVectors(vectors, documents) ==
    {v \in vectors :
        \A d \in documents : ~(d.asset_id = v.asset_id /\ d.chunk_index = v.chunk_index)}
        \cup documents

\* `asset.ingesting = False; db.commit()`, and db.rollback() when that commit raises
reset_ingesting(asset, reset_fails) ==
    IF reset_fails THEN asset ELSE [asset EXCEPT !.ingesting = FALSE]

\* ingest_asset(asset_id, project_id, db). chunks: the number of chunks of
\* the file's text. partial: the failing vector store call had already
\* committed its rows (delete_by_asset and add_documents commit before they
\* save the index). reset_fails: the commit that resets the flag raises.
ingest_asset(asset_id, chunks, fail, partial, reset_fails) ==
    IF asset_id \notin DOMAIN ing.assets THEN
        \* db.query(...).first() is None
        /\ fail = "none" /\ ~partial /\ ~reset_fails /\ chunks = 1
        /\ ing' = [ing EXCEPT
                     !.vectors = Aged(@),
                     !.last = NoCall(asset_id, "IngestionError", "not_found")]
    ELSE IF ing.assets[asset_id].ingesting THEN
        /\ fail = "none" /\ ~partial /\ ~reset_fails /\ chunks = 1
        /\ ing' = [ing EXCEPT
                     !.vectors = Aged(@),
                     !.last = NoCall(asset_id, "IngestionError", "already_ingesting")]
    ELSE IF fail = "lock_commit" THEN
        \* nothing was committed; the database error leaves ingest_asset as it is
        /\ ~partial /\ ~reset_fails /\ chunks = 1
        /\ ing' = [ing EXCEPT
                     !.vectors = Aged(@),
                     !.last = NoCall(asset_id, "Exception", "lock_commit")]
    ELSE
        LET locked == [ing.assets[asset_id] EXCEPT !.ingesting = TRUE]
            reingest == ing.assets[asset_id].ingested
            before == Aged(ing.vectors)
            deleted == IF reingest THEN DeleteAssetVectors(before, asset_id) ELSE before
            added == AddAssetVectors(deleted, vector_documents(asset_id, chunks))
            delete_call == IF reingest THEN <<"delete_by_asset">> ELSE <<>>
        IN
        IF fail = "delete" THEN
            \* raised outside the try block: no handler runs
            /\ reingest /\ ~reset_fails /\ chunks = 1
            /\ ing' = [ing EXCEPT
                         !.assets[asset_id] = locked,
                         !.vectors = IF partial THEN deleted ELSE before,
                         !.last = IngestCall(asset_id, "IngestionError", "delete", TRUE,
                                             FALSE, reingest, delete_call, 0)]
        ELSE IF fail \in HandledFailSteps THEN
            /\ partial => fail = "add"
            /\ fail \notin AfterChunking => chunks = 1
            /\ ing' = [ing EXCEPT
                         !.assets[asset_id] = reset_ingesting(locked, reset_fails),
                         !.vectors = IF fail = "commit" \/ (fail = "add" /\ partial)
                                     THEN added ELSE deleted,
                         !.last = IngestCall(asset_id, "IngestionError", fail, TRUE,
                                             reset_fails, reingest,
                                             IF fail \in AfterChunking
                                             THEN delete_call \o <<"add_documents">>
                                             ELSE delete_call,
                                             IF fail \in AfterChunking THEN chunks ELSE 0)]
        ELSE
            /\ fail = "none" /\ ~partial /\ ~reset_fails
            /\ ing' = [ing EXCEPT
                         !.assets[asset_id] = [ingested |-> TRUE, ingesting |-> FALSE],
                         !.vectors = added,
                         !.last = IngestCall(asset_id, "", "", TRUE, FALSE, reingest,
                                             delete_call \o <<"add_documents">>, chunks)]

\* Assets uploaded and not yet ingested, an empty vector store
InitIngestion ==
    /\ StoreUnused
    /\ orc = None
    /\ emb = None
    /\ chk = None
    /\ gen = None
    /\ cadd = None
    /\ lock = None
    /\ ing = [assets |-> [a \in IngestAssets |-> [ingested |-> FALSE, ingesting |-> FALSE]],
              vectors |-> {},
              last |-> NoCall(None, "", "")]

IngestAsset ==
    /\ \E asset_id \in IngestAssets \cup {UnknownAsset}, chunks \in 1..MaxChunks,
          fail \in IngestFailSteps, partial \in BOOLEAN, reset_fails \in BOOLEAN :
          ingest_asset(asset_id, chunks, fail, partial, reset_fails)
    /\ UNCHANGED <<storeVars, orc, emb, chk, gen, cadd, lock>>

NextIngestion == IngestAsset

SpecIngestion == InitIngestion /\ [][NextIngestion]_vars

\* ================================================================ generation
\* backend/routers/generation.py: the generation_records table, the POST and
\* PATCH handlers, and _generate_content_background, the task POST schedules.
\* gen.records[id] is the committed row (NoRecord: no such row yet), gen.tasks[id]
\* the background task of that row: where it is, and how
\* generate_content_variants ended in it.

MaxGenerations == 2

GenerationIds == 1..MaxGenerations

\* what an exception of the generator says
ErrorTexts == {"LLM service unavailable"}

\* generation_result, the dict generate_content_variants returns; a key may be missing
GenerationResults ==
    {[short_form |-> "Short", long_form |-> "Long", cta |-> "CTA"],
     [short_form |-> "Short"]}

\* GenerationUpdateRequest: every field is optional
UpdateRequests ==
    {[short_form |-> "Edited", long_form |-> None, cta |-> None],
     [short_form |-> None, long_form |-> None, cta |-> "Edited cta"]}

\* dict.get(key, "")
dict_get(d, key) == IF key \in DOMAIN d THEN d[key] ELSE ""

GenerationRecord(status, response, error_message) ==
    [status |-> status, response |-> response, error_message |-> error_message]

\* a column that is NULL, and one that holds a value
Null == <<>>
Value(v) == <<v>>

\* no row of that id
NoRecord == GenerationRecord("", Null, Null)

Task(pc, outcome, error) == [pc |-> pc, outcome |-> outcome, error |-> error]

NoTask == Task("none", "", "")

\* the ids of the rows created so far
created == {id \in GenerationIds : gen.records[id] # NoRecord}

\* `generation_record.status = "processing"; db.commit()`
set_processing(record) == [record EXCEPT !.status = "processing"]

\* the generator returned: response, model and tokens are stored with status "completed"
on_result(record, generation_result) ==
    [record EXCEPT
       !.response = Value([short_form |-> dict_get(generation_result, "short_form"),
                           long_form |-> dict_get(generation_result, "long_form"),
                           cta |-> dict_get(generation_result, "cta")]),
       !.status = "completed"]

\* except GenerationError as e: error_message = str(e)
on_generation_error(record, e) ==
    [record EXCEPT !.status = "failed", !.error_message = Value(<<e>>)]

on_exception_Ignored(record, e) == record

\* except Exception as e: error_message = f"Unexpected error: {str(e)}"
on_exception(record, e) ==
    [record EXCEPT !.status = "failed", !.error_message = Value(<<"Unexpected error: ", e>>)]

\* the response PATCH stores: the fields of the request, and for a field the
\* request leaves out the stored one, "" when nothing is stored
updated_response_data(record, update_request) ==
    LET current_response ==
            IF record.response = Null THEN [k \in {} |-> ""] ELSE record.response[1]
        field(k) ==
            IF update_request[k] # None THEN update_request[k]
            ELSE dict_get(current_response, k)
    IN  [short_form |-> field("short_form"), long_form |-> field("long_form"),
         cta |-> field("cta")]

\* no generation was requested yet
InitGeneration ==
    /\ StoreUnused
    /\ orc = None
    /\ emb = None
    /\ chk = None
    /\ ing = None
    /\ cadd = None
    /\ lock = None
    /\ gen = [records |-> [id \in GenerationIds |-> NoRecord],
              tasks |-> [id \in GenerationIds |-> NoTask]]

\* POST /api/generate by the owner of the project: the row is committed with
\* status "pending" and no response, and the task is scheduled
generate_content ==
    /\ created # GenerationIds
    /\ LET id == SetMin(GenerationIds \ created) IN
       gen' = [gen EXCEPT
                 !.records[id] = GenerationRecord("pending", Null, Null),
                 !.tasks[id] = Task("queued", "", "")]
    /\ UNCHANGED <<storeVars, orc, emb, chk, ing, cadd, lock>>

\* PATCH /api/generate/{generation_id} by the owner of the project
update_generated_content ==
    /\ \E id \in created, update_request \in UpdateRequests :
          gen' = [gen EXCEPT
                    !.records[id].response =
                        Value(updated_response_data(gen.records[id], update_request))]
    /\ UNCHANGED <<storeVars, orc, emb, chk, ing, cadd, lock>>

\* _generate_content_background up to the call of the generator
TaskStart(id) ==
    /\ gen.tasks[id].pc = "queued"
    /\ gen' = [gen EXCEPT
                 !.records[id] = set_processing(@),
                 !.tasks[id] = Task("generating", "", "")]
    /\ UNCHANGED <<storeVars, orc, emb, chk, ing, cadd, lock>>

\* generate_content_variants returns a result
TaskCompletes(id) ==
    /\ gen.tasks[id].pc = "generating"
    /\ \E generation_result \in GenerationResults :
          gen' = [gen EXCEPT
                    !.records[id] = on_result(@, generation_result),
                    !.tasks[id] = Task("done", "result", "")]
    /\ UNCHANGED <<storeVars, orc, emb, chk, ing, cadd, lock>>

\* generate_content_variants raises GenerationError
TaskGenerationError(id) ==
    /\ gen.tasks[id].pc = "generating"
    /\ \E e \in ErrorTexts :
          gen' = [gen EXCEPT
                    !.records[id] = on_generation_error(@, e),
                    !.tasks[id] = Task("done", "GenerationError", e)]
    /\ UNCHANGED <<storeVars, orc, emb, chk, ing, cadd, lock>>

\* generate_content_variants raises any other exception
TaskException(id) ==
    /\ gen.tasks[id].pc = "generating"
    /\ \E e \in ErrorTexts :
          gen' = [gen EXCEPT
                    !.records[id] = on_exception(@, e),
                    !.tasks[id] = Task("done", "Exception", e)]
    /\ UNCHANGED <<storeVars, orc, emb, chk, ing, cadd, lock>>

\* one step of the background task of a row
TaskStep(id) ==
    \/ TaskStart(id)
    \/ TaskCompletes(id)
    \/ TaskGenerationError(id)
    \/ TaskException(id)

NextGeneration ==
    \/ generate_content
    \/ update_generated_content
    \/ \E id \in GenerationIds : TaskStep(id)

SpecGeneration == InitGeneration /\ [][NextGeneration]_vars

\* The scheduled task runs: Starlette runs the background tasks of a response
\* once the response is sent, and the awaited generator returns or raises.
SpecGenerationFair ==
    /\ InitGeneration
    /\ [][NextGeneration]_vars
    /\ \A id \in GenerationIds : WF_vars(TaskStep(id))

\* ================================================================ concurrent add_documents
\* Two threads call add_documents on the one FAISSSQLiteVectorStore of the
\* process (get_vector_store), each call with its own sqlite3 connection.
\* cadd.db is the committed table, cadd.index self.index, cadd.file the saved
\* index; cadd.writers[w] is the call of thread w: where it is, its documents
\* and the start_id it read. A call's INSERT OR REPLACE statements and its
\* commit are one step: SQLite lets one connection write at a time, and what
\* another connection reads is the committed table.
\* History: cadd.overlapped, a call started while the other was running;
\* cadd.raced, a call read the maximum faiss_id after the other had read it
\* and before the other inserted; cadd.order, the calls in commit order.

Writers == {1, 2}

\* the document of an id, with an embedding
DocumentOf(id, embedding) == VectorDocument(CHOOSE k \in DocKeys : k.id = id, embedding)

\* the batches of the two calls: no document id occurs in both
WriterBatches(w) ==
    IF w = 1
    THEN {<<DocumentOf("a1_0", <<0>>)>>,
          <<DocumentOf("a1_0", <<0>>), DocumentOf("a3_0", <<0>>)>>}
    ELSE {<<DocumentOf("a2_0", <<1>>)>>}

\* what the table holds before the two calls
InitialTables == {{}, {Row(DocumentOf("a3_0", <<1>>), 0)}}

Writer(pc, documents, start_id) ==
    [pc |-> pc, documents |-> documents, start_id |-> start_id]

Other(w) == CHOOSE v \in Writers : v # w

InitConcurrentAdd ==
    /\ StoreUnused
    /\ orc = None
    /\ emb = None
    /\ chk = None
    /\ ing = None
    /\ gen = None
    /\ lock = None
    /\ \E table \in InitialTables, b1 \in WriterBatches(1), b2 \in WriterBatches(2) :
          cadd = [db |-> table,
                  index |-> _rebuild_faiss_index(table),
                  file |-> Saved(_rebuild_faiss_index(table)),
                  writers |-> [w \in Writers |->
                                  Writer("idle", IF w = 1 THEN b1 ELSE b2, -1)],
                  overlapped |-> FALSE,
                  raced |-> FALSE,
                  order |-> <<>>]

\* start_id = self._get_next_faiss_id()
ReadNextId(w) ==
    /\ cadd.writers[w].pc = "idle"
    /\ cadd' = [cadd EXCEPT
                  !.writers[w].pc = "read",
                  !.writers[w].start_id = _get_next_faiss_id(cadd.db),
                  !.overlapped = @ \/ cadd.writers[Other(w)].pc \notin {"idle", "done"},
                  !.raced = @ \/ cadd.writers[Other(w)].pc \in {"read", "indexed"}]
    /\ UNCHANGED <<storeVars, orc, emb, chk, ing, gen, lock>>

\* self.index.add_with_ids(vectors, faiss_ids)
AddToIndex(w) ==
    /\ cadd.writers[w].pc = "read"
    /\ cadd' = [cadd EXCEPT
                  !.writers[w].pc = "indexed",
                  !.index = add_with_ids(@, cadd.writers[w].documents,
                                         cadd.writers[w].start_id)]
    /\ UNCHANGED <<storeVars, orc, emb, chk, ing, gen, lock>>

\* the INSERT OR REPLACE of every document, and conn.commit()
InsertAndCommit(w) ==
    /\ cadd.writers[w].pc = "indexed"
    /\ cadd' = [cadd EXCEPT
                  !.writers[w].pc = "committed",
                  !.db = InsertAll(@, cadd.writers[w].documents,
                                   cadd.writers[w].start_id, 1),
                  !.order = Append(@, w)]
    /\ UNCHANGED <<storeVars, orc, emb, chk, ing, gen, lock>>

\* self._save_faiss_index(), and the call returns
SaveIndex(w) ==
    /\ cadd.writers[w].pc = "committed"
    /\ cadd' = [cadd EXCEPT
                  !.writers[w].pc = "done",
                  !.file = Saved(cadd.index)]
    /\ UNCHANGED <<storeVars, orc, emb, chk, ing, gen, lock>>

NextConcurrentAdd ==
    \E w \in Writers :
        \/ ReadNextId(w)
        \/ AddToIndex(w)
        \/ InsertAndCommit(w)
        \/ SaveIndex(w)

SpecConcurrentAdd == InitConcurrentAdd /\ [][NextConcurrentAdd]_vars

\* ================================================================ concurrent ingestion
\* POST /{project_id}/assets/{asset_id}/ingest (routers/assets.py) and the
\* background task it schedules, _ingest_asset_background, which calls
\* ingest_asset with a database session of its own. Starlette runs such a
\* task, a plain function, in a worker thread, so the tasks of two accepted
\* requests run side by side. lock.asset is the committed row of the one
\* asset, lock.runs[r] where request r and its task are:
\*   "idle"       no request
\*   "conflict"   the endpoint answered 409
\*   "scheduled"  the endpoint answered 202, the task has not read the row
\*   "checked"    the task read the row and found ingesting false
\*   "raised"     the task read the row, found ingesting true and raised
\*   "locked"     the task committed ingesting = True
\*   "done"       ingest_asset ended

MaxRuns == 2

Runs == 1..MaxRuns

\* how a run ends once it holds the flag: it succeeds, it fails inside the
\* try block and resets the flag, or it fails with the flag left set
\* (delete_by_asset raised, or the commit that resets the flag raised)
RunEndings == {"success", "failed_reset", "failed_locked"}

InitConcurrentIngestion ==
    /\ StoreUnused
    /\ orc = None
    /\ emb = None
    /\ chk = None
    /\ ing = None
    /\ gen = None
    /\ cadd = None
    /\ lock = [asset |-> [ingested |-> FALSE, ingesting |-> FALSE],
               runs |-> [r \in Runs |-> "idle"]]

\* the endpoint: 409 when the row says ingesting, else the task is scheduled;
\* it does not set the flag
ingest_asset_endpoint(r) ==
    /\ lock.runs[r] \in {"idle", "conflict", "raised", "done"}
    /\ lock' = [lock EXCEPT
                  !.runs[r] = IF lock.asset.ingesting THEN "conflict" ELSE "scheduled"]
    /\ UNCHANGED <<storeVars, orc, emb, chk, ing, gen, cadd>>

\* ingest_asset: db.query(Asset)...first() and `if asset.ingesting: raise`
QueryAndCheck(r) ==
    /\ lock.runs[r] = "scheduled"
    /\ lock' = [lock EXCEPT
                  !.runs[r] = IF lock.asset.ingesting THEN "raised" ELSE "checked"]
    /\ UNCHANGED <<storeVars, orc, emb, chk, ing, gen, cadd>>

\* ingest_asset: `asset.ingesting = True; db.commit()`
LockCommit(r) ==
    /\ lock.runs[r] = "checked"
    /\ lock' = [lock EXCEPT !.runs[r] = "locked", !.asset.ingesting = TRUE]
    /\ UNCHANGED <<storeVars, orc, emb, chk, ing, gen, cadd>>

\* ingest_asset: the rest of the run, up to its last commit
FinishRun(r) ==
    /\ lock.runs[r] = "locked"
    /\ \E ending \in RunEndings :
          lock' = [lock EXCEPT
                     !.runs[r] = "done",
                     !.asset = CASE ending = "success" ->
                                       [ingested |-> TRUE, ingesting |-> FALSE]
                                 [] ending = "failed_reset" ->
                                       [@ EXCEPT !.ingesting = FALSE]
                                 [] OTHER -> @]
    /\ UNCHANGED <<storeVars, orc, emb, chk, ing, gen, cadd>>

NextConcurrentIngestion ==
    \E r \in Runs :
        \/ ingest_asset_endpoint(r)
        \/ QueryAndCheck(r)
        \/ LockCommit(r)
        \/ FinishRun(r)

SpecConcurrentIngestion == InitConcurrentIngestion /\ [][NextConcurrentIngestion]_vars

\* ================================================================ scoped search
\* FAISSSQLiteVectorStore.search on a store that successful add_documents
\* calls filled, every document added once: row i carries faiss_id i - 1 and
\* the index holds the rows' embeddings under their faiss_ids.

MaxStored == 4

ScopedAssets == {"a1", "a2"}
ScopedEmbeddings == {<<0>>, <<1>>}

\* the row of the i-th document added: its id stands for f"{asset_id}_{chunk_index}"
StoredRow(i, asset_id, embedding) ==
    [id |-> <<asset_id, i - 1>>, asset_id |-> asset_id, project_id |-> "p1",
     chunk_index |-> i - 1, text |-> "text", embedding |-> embedding,
     faiss_id |-> i - 1]

StoredTables ==
    UNION {{{StoredRow(i, content[i][1], content[i][2]) : i \in 1..n}
               : content \in [1..n -> ScopedAssets \X ScopedEmbeddings]}
           : n \in 1..MaxStored}

InitScopedSearch ==
    /\ orc = None
    /\ emb = None
    /\ chk = None
    /\ ing = None
    /\ gen = None
    /\ cadd = None
    /\ lock = None
    /\ dimension = 1
    /\ db \in StoredTables
    /\ index = _rebuild_faiss_index(db)
    /\ file = Saved(index)
    /\ assigned = FaissIds(db)
    /\ faults = 0
    /\ lastOp = Op("add_documents", FALSE, "", None, FALSE, 0)

NextScopedSearch == Search

SpecScopedSearch == InitScopedSearch /\ [][NextScopedSearch]_vars

\* ================================================================ claims
CountAll(table) == get_document_count(table, None)

\* Every outcome search can produce in the current state for the given inputs
Outcomes(q, top_k, p, a) == search(db, index, dimension, q, top_k, p, a)

\* C1: add_documents is atomic: whenever a call raises, at whatever step, the
\* rows of the vectors table and get_document_count() are as before the call.
C1_AddIsAtomic ==
    [][(lastOp'.op = "add_documents" /\ lastOp'.raised)
          => (db' = db /\ CountAll(db') = CountAll(db))]_vars

\* C2: no add_documents call assigns a faiss_id that an earlier add_documents
\* call already assigned, even when the earlier document has since been deleted.
C2_FaissIdNeverReused ==
    [][lastOp'.op = "add_documents"
          => (FaissIds(db') \ FaissIds(db)) \cap assigned = {}]_vars

\* C3: after every completed operation, returned or raised, the ids held in the
\* in-memory index are the faiss_ids of the table, and ntotal is the row count.
C3_IndexAgreesWithTable ==
    /\ IndexIds(index) = FaissIds(db)
    /\ Len(index) = Cardinality(db)

\* C4: after delete_by_asset(X) returns, get_document_count() has decreased by
\* exactly the number of documents that had asset_id = X and every search with
\* asset_id = X returns an empty list; likewise delete_by_project(P) and
\* project_id = P. (A query of the wrong length on a non-empty index raises:
\* it returns no list, so its outcome carries no results either.)
C4_ScopedDeletion ==
    [][/\ (lastOp'.op = "delete_by_asset" /\ ~lastOp'.raised) =>
            /\ CountAll(db') =
                  CountAll(db) - Cardinality({r \in db : r.asset_id = lastOp'.arg})
            /\ \A q \in Queries, top_k \in TopKs, p \in ProjectFilters :
                  \A out \in search(db', index', dimension, q, top_k, p, lastOp'.arg) :
                      out.results = <<>>
       /\ (lastOp'.op = "delete_by_project" /\ ~lastOp'.raised) =>
            /\ CountAll(db') =
                  CountAll(db) - Cardinality({r \in db : r.project_id = lastOp'.arg})
            /\ \A q \in Queries, top_k \in TopKs, a \in AssetFilters :
                  \A out \in search(db', index', dimension, q, top_k, lastOp'.arg, a) :
                      out.results = <<>>
      ]_vars

\* C4 witness: a delete_by_asset that removed a row returned while rows of
\* other assets remain in the store.
C4_Witness ==
    /\ lastOp.op = "delete_by_asset"
    /\ ~lastOp.raised
    /\ lastOp.n >= 1
    /\ db # {}
    /\ index # <<>>

\* C5: a fresh store constructed on the same db_path reports the same
\* get_document_count() and starts with an index that contains exactly the
\* faiss_ids of the vectors table, also when the index file is stale.
C5_RestartIndexMatchesTable ==
    [][lastOp'.op = "__init__"
          => /\ CountAll(db') = CountAll(db)
             /\ IndexIds(index') = FaissIds(db')
             /\ Len(index') = Cardinality(db')]_vars

\* C6: at every point, every vector id contained in the serialized index file
\* has a committed row in the vectors table.
C6_FileIdsAreCommitted ==
    file.exists => IndexIds(file.entries) \subseteq FaissIds(db)

\* C7: an add_documents call whose list holds any embedding of the wrong
\* length raises and changes nothing: no row, no count, no index change.
C7_MismatchRejectsBatch ==
    [][(lastOp'.op = "add_documents" /\ lastOp'.mismatch)
          => /\ lastOp'.raised
             /\ db' = db
             /\ CountAll(db') = CountAll(db)
             /\ index' = index
             /\ file' = file]_vars

\* C7 witness: a batch with a wrong-length embedding was rejected by a store
\* that holds documents.
C7_Witness ==
    /\ lastOp.op = "add_documents"
    /\ lastOp.mismatch
    /\ lastOp.raised
    /\ db # {}

\* C8: search with a query whose length differs from the configured dimension
\* raises in every store state, the empty store included.
C8_SearchMismatchRaises ==
    \A q \in Queries :
        Len(q) # dimension =>
            \A top_k \in TopKs, p \in ProjectFilters, a \in AssetFilters :
                \A out \in Outcomes(q, top_k, p, a) : out.raised

\* C9: every list search returns has at most top_k entries, is ordered by
\* non-increasing score, holds only documents of the requested project and
\* asset, and every score is strictly positive and at most 1.
C9_SearchResultShape ==
    \A q \in Queries, top_k \in TopKs, p \in ProjectFilters, a \in AssetFilters :
        \A out \in Outcomes(q, top_k, p, a) :
            LET res == out.results IN
            /\ Len(res) <= top_k
            /\ \A i, j \in 1..Len(res) : i < j => ~ScoreLess(res[i].score, res[j].score)
            /\ \A i \in 1..Len(res) :
                  /\ (p # None => res[i].document.project_id = p)
                  /\ (a # None => res[i].document.asset_id = a)
                  /\ res[i].score.num * res[i].score.den > 0
                  /\ res[i].score.num <= res[i].score.den

\* C9 witness: a search returned while the store holds more documents than
\* top_k = 1 allows, at different distances, and documents outside asset a1.
C9_Witness ==
    /\ lastOp.op = "search"
    /\ lastOp.n >= 1
    /\ \E r1, r2 \in db : r1.embedding # r2.embedding /\ r1.asset_id = "a1" /\ r2.asset_id # "a1"
    /\ \E q \in Queries : \E out \in Outcomes(q, 1, None, "a1") : Len(out.results) = 1

\* C10: without a scope filter, a search with top_k >= 1 on a non-empty store
\* returns as its first result a stored document at minimal distance from the
\* query.
C10_FirstResultIsNearest ==
    \A q \in Queries, top_k \in TopKs :
        (Len(q) = dimension /\ db # {}) =>
            \A out \in Outcomes(q, top_k, None, None) :
                /\ ~out.raised
                /\ out.results # <<>>
                /\ \E r \in db :
                      /\ r.id = out.results[1].document.id
                      /\ \A other \in db :
                            Distance(r.embedding, q) <= Distance(other.embedding, q)

\* C11: a delete_by_asset, delete_by_project or clear call that raises
\* VectorStoreError, at whatever step, leaves the vectors table with the rows
\* it had before the call.
C11_FailedDeleteRollsBack ==
    [][(lastOp'.op \in {"delete_by_asset", "delete_by_project", "clear"} /\ lastOp'.raised)
          => db' = db]_vars

\* C12: a delete_by_asset / delete_by_project call that returns leaves every
\* row of another asset / project exactly as it was (all columns, faiss_id
\* included), and the index it rebuilt holds, for every remaining row, exactly
\* one entry, under the row's faiss_id and with the row's embedding, and no
\* other entry. (delete_by_asset rebuilds only when it found rows to delete.)
C12_DeleteKeepsOthersAndIds ==
    [][(lastOp'.op \in {"delete_by_asset", "delete_by_project"} /\ ~lastOp'.raised) =>
          LET matches(r) == IF lastOp'.op = "delete_by_asset"
                            THEN r.asset_id = lastOp'.arg
                            ELSE r.project_id = lastOp'.arg
              rebuilt == lastOp'.op = "delete_by_project" \/ lastOp'.n >= 1
          IN  /\ \A r \in db : ~matches(r) => r \in db'
              /\ db' \subseteq db
              /\ rebuilt =>
                    /\ Len(index') = Cardinality(db')
                    /\ \A r \in db' :
                          \E i \in 1..Len(index') :
                              /\ index'[i].id = r.faiss_id
                              /\ index'[i].vec = r.embedding
                              /\ \A j \in 1..Len(index') :
                                    index'[j].id = r.faiss_id => j = i
      ]_vars

\* C12 witness: a delete that removed a row returned, and a remaining row
\* keeps a faiss_id that is not its position in the rebuilt index.
C12_Witness ==
    /\ lastOp.op \in {"delete_by_asset", "delete_by_project"}
    /\ ~lastOp.raised
    /\ lastOp.n >= 1
    /\ \E i \in 1..Len(index) :
          /\ index[i].id # i - 1
          /\ \E r \in db : r.faiss_id = index[i].id /\ r.embedding = index[i].vec

\* C13: for a query that is not blank, search passes the trimmed query to the
\* embedder once and, the embedding made, calls the vector store once, with
\* top_k * 3 when rerank is on and top_k when it is off, with that embedding
\* and with project_id and asset_id as given, and returns at most top_k
\* results; for an empty or whitespace-only query it returns an empty list
\* and calls neither the embedder nor the vector store.
C13_SearchCallsOnceAndTruncates ==
    orc.op = "search" =>
        IF str_strip(orc.query) = <<>>
        THEN /\ ~orc.out.raised
             /\ orc.out.results = <<>>
             /\ orc.out.embed_calls = <<>>
             /\ orc.out.store_calls = <<>>
        ELSE /\ orc.out.embed_calls = <<str_strip(orc.query)>>
             /\ orc.fail # "embed" =>
                   /\ Len(orc.out.store_calls) = 1
                   /\ orc.out.store_calls[1].top_k =
                         (IF orc.rerank THEN orc.top_k * 3 ELSE orc.top_k)
                   /\ orc.out.store_calls[1].query_embedding =
                         query_embedding_of(str_strip(orc.query))
                   /\ orc.out.store_calls[1].project_id = orc.project_id
                   /\ orc.out.store_calls[1].asset_id = orc.asset_id
             /\ Len(orc.out.results) <= orc.top_k

\* C13 witness: a re-ranked search for a query with surrounding blanks and
\* both filters set was handed three candidates and returned top_k of them.
C13_Witness ==
    /\ orc.op = "search"
    /\ orc.query = <<" ", "k", " ">>
    /\ orc.rerank
    /\ orc.project_id = "p1"
    /\ orc.asset_id = "a1"
    /\ Len(orc.store_returns) = 3
    /\ ~orc.out.raised
    /\ Len(orc.out.results) = orc.top_k

\* C14: a search call ends by returning or by raising SemanticSearchError: a
\* VectorStoreError of the store becomes "Vector store search failed", any
\* other exception of the embedder, the store or the re-ranking becomes
\* "Semantic search failed", nothing is raised when nothing failed, and the
\* embedder and the store are each called at most once in the call.
C14_SearchWrapsErrorsAndNeverRetries ==
    orc.op = "search" =>
        /\ orc.fail = "VectorStoreError" =>
              orc.out.raised /\ orc.out.error = "Vector store search failed"
        /\ orc.fail \in {"embed", "Exception", "rerank"} =>
              orc.out.raised /\ orc.out.error = "Semantic search failed"
        /\ orc.fail = "none" => ~orc.out.raised
        /\ orc.out.raised => orc.out.results = <<>>
        /\ Len(orc.out.embed_calls) <= 1
        /\ Len(orc.out.store_calls) <= 1
        /\ orc.fail = "embed" => orc.out.store_calls = <<>>

\* C14 witness: the store raised VectorStoreError on its one call.
C14_Witness ==
    /\ orc.op = "search"
    /\ orc.fail = "VectorStoreError"
    /\ orc.out.raised
    /\ Len(orc.out.store_calls) = 1

\* C15: every result returned by search(rerank=True) is a candidate the store
\* handed back, carrying the adjusted score (similarity + keyword boost +
\* length adjustment + metadata boost) of that candidate, for every non-empty
\* candidate list, a single candidate included.
C15_RerankedScoresAreAdjusted ==
    (orc.op = "search" /\ orc.rerank /\ ~orc.out.raised) =>
        \A i \in 1..Len(orc.out.results) :
            \E j \in 1..Len(orc.store_returns) :
                /\ orc.out.results[i].document = orc.store_returns[j].document
                /\ orc.out.results[i].score = final_score(orc.query, orc.store_returns[j])

\* C16: _rerank_results returns as many results as it was given, their
\* documents a permutation of the given documents, each with a score at
\* least that of the next; the list it was given is as before the call, and
\* calling it again on the same query and list gives the same list.
C16_RerankIsPurePermutation ==
    [][orc'.op = "_rerank_results" =>
          LET given == orc.store_returns
              got == orc'.out.results
              n == Len(given)
          IN  /\ Len(got) = n
              /\ \E f \in [1..n -> 1..n] :
                    /\ \A i, j \in 1..n : f[i] = f[j] => i = j
                    /\ \A i \in 1..n : got[i].document = given[f[i]].document
              /\ \A i \in 1..(n - 1) : got[i].score >= got[i + 1].score
              /\ orc'.store_returns = given
              /\ _rerank_results(orc'.query, orc'.store_returns) = got
      ]_vars

\* C16 witness: three candidates came back in another order than given, two
\* of them with equal adjusted scores.
C16_Witness ==
    /\ orc.op = "_rerank_results"
    /\ Len(orc.out.results) = 3
    /\ orc.out.results[1].document # orc.store_returns[1].document
    /\ \E i \in 1..2 : orc.out.results[i].score = orc.out.results[i + 1].score

\* C17: generate_embeddings_batch returns one vector per text, in order: the
\* zero vector of the model's dimension where the text is empty or whitespace
\* only, and generate_embedding's vector for the text elsewhere; the model is
\* handed the non-empty texts only, in their original order, in one call (and
\* is not called when there is none).
C17_BatchMatchesSingle ==
    emb.op = "generate_embeddings_batch" =>
        LET texts == emb.texts
            kept == non_empty_indices(texts, 1)
        IN  /\ Len(emb.result) = Len(texts)
            /\ \A i \in 1..Len(texts) :
                  IF str_strip(texts[i]) = <<>>
                  THEN /\ emb.result[i] = [d \in 1..EmbeddingDimension |-> 0]
                       /\ \A c \in 1..Len(emb.model_calls) :
                             texts[i] \notin Range(emb.model_calls[c])
                  ELSE emb.result[i] = generate_embedding(texts[i])
            /\ \A i, j \in 1..Len(kept) : i < j => kept[i] < kept[j]
            /\ Range(kept) = {i \in 1..Len(texts) : str_strip(texts[i]) # <<>>}
            /\ emb.model_calls =
                  (IF kept = <<>> THEN <<>>
                   ELSE <<[j \in 1..Len(kept) |-> texts[kept[j]]]>>)

\* C17 witness: a batch with an empty text between two different non-empty
\* texts was embedded.
C17_Witness ==
    /\ emb.op = "generate_embeddings_batch"
    /\ \E i, j, k \in 1..Len(emb.texts) :
          /\ i < j /\ j < k
          /\ str_strip(emb.texts[i]) # <<>>
          /\ str_strip(emb.texts[j]) = <<>>
          /\ str_strip(emb.texts[k]) # <<>>
          /\ emb.texts[i] # emb.texts[k]
          /\ emb.result[i] # emb.result[k]

\* C18: chunk_text returns chunks numbered 0, 1, 2, ... in order, each with
\* end_char > start_char and token_count > 0, whose [start_char, end_char)
\* spans together contain every offset from 0 to the length of the text;
\* for an empty or whitespace-only text it returns no chunk.
C18_ChunksCoverText ==
    chk.op = "chunk_text" =>
        IF str_strip(chk.text) = <<>> THEN chk.chunks = <<>>
        ELSE /\ \A i \in 1..Len(chk.chunks) :
                   /\ chk.chunks[i].chunk_index = i - 1
                   /\ chk.chunks[i].end_char > chk.chunks[i].start_char
                   /\ chk.chunks[i].token_count > 0
             /\ \A p \in 0..(Len(chk.text) - 1) :
                   \E i \in 1..Len(chk.chunks) :
                       chk.chunks[i].start_char <= p /\ p < chk.chunks[i].end_char

\* C19: every chunk chunk_text returns has token_count <= 1.5 * chunk_size,
\* whatever the text, chunk_size and chunk_overlap.
C19_ChunksAreTokenBounded ==
    chk.op = "chunk_text" =>
        \A i \in 1..Len(chk.chunks) :
            2 * chk.chunks[i].token_count <= 3 * chk.chunk_size

\* C20: whenever ingest_asset raises IngestionError after it has committed
\* ingesting = True, the asset's ingesting flag is False when the call has
\* returned, whichever step failed, the deletion of the existing vectors on
\* re-ingestion included. (Stated for the calls in which the commit that
\* resets the flag does not itself fail.)
C20_FailureResetsLock ==
    (/\ ing.last.op = "ingest_asset"
     /\ ing.last.raised = "IngestionError"
     /\ ing.last.locked
     /\ ~ing.last.reset_failed)
        => ~ing.assets[ing.last.asset_id].ingesting

C28_IngestedMatchesStore ==
    \A a \in DOMAIN ing.assets :
        ~ing.assets[a].ingesting
            => (ing.assets[a].ingested <=> \E v \in ing.vectors : v.asset_id = a)

\* C22: a generation record is created "pending" with no response; its status
\* only moves pending -> processing -> completed or failed; it is "processing"
\* once the task has reached the generator; its response goes from None to a
\* value only on the step that makes it "completed"; and when the generator
\* raised GenerationError the record ends "failed" with the error's text as
\* error_message and no response.
C22_StatusLifecycle ==
    [][\A id \in GenerationIds :
          LET old == gen.records[id]
              new == gen'.records[id]
              task == gen'.tasks[id]
          IN  /\ (old = NoRecord /\ new # NoRecord)
                    => (new.status = "pending" /\ new.response = Null)
              /\ old # NoRecord
                    => /\ new # NoRecord
                       /\ new.status # old.status
                             => <<old.status, new.status>> \in
                                   {<<"pending", "processing">>,
                                    <<"processing", "completed">>,
                                    <<"processing", "failed">>}
                       /\ (old.response = Null /\ new.response # Null)
                             => (old.status = "processing" /\ new.status = "completed")
              /\ task.pc = "generating" => new.status = "processing"
              /\ (task.pc = "done" /\ task.outcome = "GenerationError")
                    => /\ new.status = "failed"
                       /\ new.error_message = Value(<<task.error>>)
                       /\ new.response = Null]_vars

C23_SingleWriterDiscipline ==
    (\A w \in Writers : cadd.writers[w].pc = "done")
        => LET ids == {r.id : r \in cadd.db}
               first == cadd.writers[cadd.order[1]]
               second == cadd.writers[cadd.order[2]]
               shared == Min2(Len(first.documents), Len(second.documents))
           IN  /\ ~cadd.overlapped
                     => /\ \A w \in Writers : \A i \in 1..Len(cadd.writers[w].documents) :
                               cadd.writers[w].documents[i].id \in ids
                        /\ \A r, q \in cadd.db : r.faiss_id = q.faiss_id => r = q
               /\ cadd.raced
                     => /\ first.start_id = second.start_id
                        /\ \A i \in 1..shared : first.documents[i].id \notin ids
                        /\ \A i \in 1..Len(second.documents) :
                               second.documents[i].id \in ids

\* both calls returned after a race in which the first to commit lost a row
C23_Witness ==
    /\ \A w \in Writers : cadd.writers[w].pc = "done"
    /\ cadd.raced
    /\ \E w \in Writers : \E i \in 1..Len(cadd.writers[w].documents) :
          cadd.writers[w].documents[i].id \notin {r.id : r \in cadd.db}

\* C24: for one asset at most one ingest_asset run is past the "already being
\* ingested" check at any time, and a run that finds ingesting = True raises
\* and leaves the flag True.
C24_FlagIsALock ==
    [][/\ Cardinality({r \in Runs : lock'.runs[r] \in {"checked", "locked"}}) <= 1
       /\ \A r \in Runs :
             (lock.runs[r] = "scheduled" /\ lock'.runs[r] = "raised")
                 => (lock.asset.ingesting /\ lock'.asset.ingesting)]_vars

\* C26: an add_documents call that returns after superseding a row (the id was
\* already stored, or is repeated in the batch) leaves every document id with
\* one row, and leaves no index entry under a superseded faiss_id: every
\* faiss_id that was in the table or was assigned by this call and is not in
\* the table now has no vector in the index.
C26_ReaddReplaces ==
    [][(lastOp'.op = "add_documents" /\ ~lastOp'.raised)
          => LET added == {index'[i].id : i \in (Len(index) + 1)..Len(index')}
                 superseded == (FaissIds(db) \cup added) \ FaissIds(db')
             IN  /\ \A r, q \in db' : r.id = q.id => r = q
                 /\ CountAll(db') = Cardinality({r.id : r \in db'})
                 /\ superseded \cap IndexIds(index') = {}]_vars

\* C27: whatever calls came before, every result of a search pairs a stored
\* document with the score 1/(1+d), where d is the distance between the query
\* and the embedding stored for that document, and no document is listed twice.
C27_ResultsAreNeverStale ==
    \A q \in Queries, top_k \in TopKs, p \in ProjectFilters, a \in AssetFilters :
        \A out \in Outcomes(q, top_k, p, a) :
            LET res == out.results IN
            /\ \A i \in 1..Len(res) :
                  \E r \in db :
                     /\ r.id = res[i].document.id
                     /\ res[i].score = Score(Distance(r.embedding, q))
            /\ \A i, j \in 1..Len(res) :
                  i # j => res[i].document.id # res[j].document.id

\* C25: when m >= 1 stored documents match the project and asset filter, a
\* search returns min(top_k, m) results, all of them matching documents, and
\* no matching document left out is nearer to the query than one returned,
\* however many other documents are stored and however near they are.
C25_ScopedSearchNotStarved ==
    \A q \in Queries, top_k \in TopKs, p \in ProjectFilters, a \in AssetFilters :
        LET matching == {r \in db : /\ (p # None => r.project_id = p)
                                     /\ (a # None => r.asset_id = a)}
        IN  (Len(q) = dimension /\ matching # {})
                => \A out \in Outcomes(q, top_k, p, a) :
                      LET res == out.results
                          returned == {r \in matching :
                                          \E i \in 1..Len(res) : res[i].document.id = r.id}
                      IN  /\ ~out.raised
                          /\ Len(res) = Min2(top_k, Cardinality(matching))
                          /\ \A i \in 1..Len(res) :
                                \E r \in matching : r.id = res[i].document.id
                          /\ \A r \in returned, other \in matching \ returned :
                                Distance(r.embedding, q) <= Distance(other.embedding, q)

\* C29: for a text that is not blank, every word of every sentence is found
\* in the text of some returned chunk, and a sentence that alone exceeds
\* chunk_size and splits into several word-boundary parts is found whole in
\* no chunk: it is emitted as its parts only.
C29_NoContentLostOrDuplicated ==
    (chk.op = "chunk_text" /\ str_strip(chk.text) # <<>>)
        => LET sentences == split_text_at_sentences(chk.text) IN
           \A s \in 1..Len(sentences) :
              LET sentence == sentences[s]
                  words == str_split(sentence)
                  sentence_parts ==
                      split_text_at_words(sentence, chk.chunk_size * CHARS_PER_TOKEN)
              IN  /\ \A w \in 1..Len(words) :
                        \E i \in 1..Len(chk.chunks) :
                           str_contains(chk.chunks[i].text, words[w])
                  /\ (/\ get_token_count(sentence, chk.encoding) > chk.chunk_size
                      /\ Len(sentence_parts) > 1)
                        => \A i \in 1..Len(chk.chunks) :
                              ~str_contains(chk.chunks[i].text, sentence)

====
